---- MODULE Spec2Model ----
(***************************************************************************)
(* Sampling grids of the transit radiative-transfer code                   *)
(* (transit/src/makesample.c): the grid generator makesample/makesample1   *)
(* and the domain builders makewnsample, makeradsample, makeipsample and   *)
(* maketempsample.                                                         *)
(*                                                                         *)
(* Numbers.  A C double is modelled as an exact rational with denominator  *)
(* 4: the integer x stands for the real x/4 (a "tick" is 0.25).  Spacings  *)
(* are drawn from the even ticks and oversampling factors from {1,2}, so   *)
(* that spacing/oversample is again a whole number of ticks.  The model    *)
(* therefore has no rounding error; the tolerance okfinalexcess = 1e-8 is  *)
(* kept with its true value, as the fraction 1/OKFINALEXCESS_INV.          *)
(*                                                                         *)
(* Memory.  The heap is a sequence of blocks; a pointer is a block's index *)
(* and NULL is 0.  C index k of an array is element k+1 of its block.      *)
(***************************************************************************)
EXTENDS Integers, Sequences, FiniteSets, TLC

VARIABLES
  pc,       \* position of the driver.  Generator on its own: "ready", then
            \* "returned", "exit", "segv" or "hang", then "poked" or
            \* "inverted".  Pipeline: "main" until "exit" or "segv"
  op,       \* the function the driver calls
  nodebug,  \* TRUE when built with NODEBUG_TRANSIT (transitASSERT compiled out)
  usamp,    \* the hint sample passed to the generator
  rsamp,    \* the reference sample passed to the generator
  samp,     \* the output sample of the generator
  res,      \* the value returned
  rev,      \* what the generator left when called on the inverted inputs
  heap,     \* allocated blocks
  tr,       \* struct transit: progress indicator pi, the grids, the
            \* interpolated per-layer arrays
  th,       \* struct transithint: the user's hints for each grid
  atms,     \* struct atm_data: the atmosphere's radius sampling
  calls,    \* builder invocations so far
  file,     \* the binary stream that savesample writes and restsample reads
  work      \* the arrays of the numerical routines and what they returned

genvars == <<usamp, rsamp, samp, rev>>
pipevars == <<tr, th, atms, calls>>
iovars == <<file>>
numvars == <<work>>
vars == <<pc, op, nodebug, usamp, rsamp, samp, res, rev, heap, tr, th, atms,
          calls, file, work>>

---------------------------------------------------------------------------
(* Bounds of the model *)

\* Largest hinted or referenced bound, in ticks (8 ticks = 2.0).
MaxVal == 8
\* Largest magnitude of a spacing, in double ticks (1 = 0.5).
MaxStep == 1
\* Largest length of a reference value array.
MaxN == 2
\* Largest number of builder invocations in one run of the pipeline.
MaxCalls == 3
\* Largest count of a saved Sample whose values are all written out.
MaxCount == 2
\* Largest number of losses a stream suffers between saving and restoring.
MaxCut == 2
\* Largest number of samples handed to the integration routines.
MaxSamples == 5
\* Largest size of a tridiagonal system handed to tri on its own.
MaxSys == 2
\* Largest number of knots of an interpolation table.
MaxKnots == 4
\* Largest number of wavenumbers modulation integrates over.
MaxWn == 11

---------------------------------------------------------------------------
(* Arithmetic *)

Abs(x) == IF x < 0 THEN -x ELSE x

\* Conversion of the real a/b to a C long: the fraction is discarded
\* (truncation toward zero).
TruncQ(a, b) ==
  LET q == Abs(a) \div Abs(b)
  IN  IF (a < 0) # (b < 0) THEN -q ELSE q

\* 1/okfinalexcess.
OKFINALEXCESS_INV == 100000000

\* Plain assignment of the flag instead of or-ing it in.
BitOr_Plain(r, b) == b

\* Bitwise or of the two modification flags 0x1 and 0x2.
BitOr(r, b) == IF (r \div b) % 2 = 1 THEN r ELSE r + b

---------------------------------------------------------------------------
(* Heap *)

NULL == 0

Zeros(n) == [k \in 1..n |-> 0]

\* calloc(n, sizeof(PREC_RES)): a fresh zero-filled block; its address is
\* CallocPtr(hp).
Calloc(hp, n) == Append(hp, [live |-> TRUE, a |-> Zeros(n)])
CallocPtr(hp) == Len(hp) + 1

Arr(hp, p) == hp[p].a

\* free(p); free(NULL) does nothing.
Free(hp, p) == IF p \in 1..Len(hp) THEN [hp EXCEPT ![p].live = FALSE] ELSE hp

\* p points at a block that was allocated / that is still allocated.
Readable(hp, p) == p \in 1..Len(hp)
Live(hp, p) == Readable(hp, p) /\ hp[p].live

\* The real x in ticks.
Ticks(x) == 4 * x

---------------------------------------------------------------------------
(* prop_samp *)

\* A zeroed prop_samp {n, d, i, f, o, v, fct}.
NoSamp == [n |-> 0, d |-> 0, i |-> 0, f |-> 0, o |-> 0, v |-> NULL, fct |-> 0]

\* What a call leaves: how it ended ("returned", "exit" for a fatal
\* transiterror, "ub" for undefined behaviour), the value returned, the
\* output sample and the heap.
Outcome(st, r, s, hp) == [st |-> st, res |-> r, samp |-> s, heap |-> hp]

NoOutcome == Outcome("none", 0, NoSamp, <<>>)

\* transitASSERT(cond, ...): raises a critical error when cond holds,
\* unless the build defines NODEBUG_TRANSIT.
transitASSERT(cond, nd) == cond /\ ~nd

\* No numerical routine has run.
NoNum == [n |-> 0]

\* A binary stream: hdr holds the prop_samp structs written (none or one),
\* a the PREC_RES values after it, followed by zeros further values 0.0;
\* cut counts the losses the stream has suffered since it was written.
\* rd counts the values read back from it.
NoFile == [hdr |-> <<>>, a |-> <<>>, zeros |-> 0, cut |-> 0, rd |-> 0]

---------------------------------------------------------------------------
(* makesample and makesample1: the spacing path *)

\* The count rounded to the nearest integer instead of truncated.
NPoints_Rounded(i, f, d) ==
  LET e   == IF d < 0 THEN -1 ELSE 1
      num == (OKFINALEXCESS_INV + e) * f - OKFINALEXCESS_INV * i
      den == OKFINALEXCESS_INV * d
      q   == TruncQ(num + den, den)
      rem == (num + den) - q * den
      n   == IF 2 * Abs(rem) >= Abs(den)
             THEN (IF (num + den < 0) # (den < 0) THEN q - 1 ELSE q + 1)
             ELSE q
  IN  IF n < 0 THEN -n ELSE n

\* The count without the sign flip of okfinalexcess for a negative spacing.
NPoints_NoSignFlip(i, f, d) ==
  LET num == (OKFINALEXCESS_INV + 1) * f - OKFINALEXCESS_INV * i
      den == OKFINALEXCESS_INV * d
      n   == TruncQ(num + den, den)
  IN  IF n < 0 THEN -n ELSE n

\* Number of points before oversampling:
\*   if(d<0) okfinalexcess = -okfinalexcess;
\*   n = ((1.0+okfinalexcess)*f - i)/d + 1;   (converted to long)
\*   if(n<0) n = -n;
NPoints(i, f, d) ==
  LET e   == IF d < 0 THEN -1 ELSE 1
      num == (OKFINALEXCESS_INV + e) * f - OKFINALEXCESS_INV * i
      den == OKFINALEXCESS_INV * d
      n   == TruncQ(num + den, den)
  IN  IF n < 0 THEN -n ELSE n

\* Oversampled number of points: (n - 1)*o + 1.
OversampledN(n, o) == (n - 1) * o + 1

\* The delta left at the spacing, not divided by the oversampling.
OversampledDelta_Whole(d, o) == d

\* Oversampled delta: d/(double)o.
OversampledDelta(d, o) == TruncQ(d, o)

\* while(n) *v-- = si + n--*osd;   p is the C index v points at.
RECURSIVE FillLoop(_, _, _, _, _)
FillLoop(a, p, n, si, osd) ==
  IF n = 0 THEN a
  ELSE FillLoop([a EXCEPT ![p + 1] = si + n * osd], p - 1, n - 1, si, osd)

\* v = samp->v = calloc(samp->n, ...); n = samp->n; *v = si; v += --n;
\* followed by the fill loop.  With samp->n <= 0 the store *v = si lands
\* outside the block (or at NULL) and the loop counts down from a negative
\* n: undefined behaviour.
FillValues(s, hp, si, osd, r) ==
  IF s.n <= 0 THEN Outcome("ub", r, s, hp)
  ELSE LET a0 == [Zeros(s.n) EXCEPT ![1] = si]
           a1 == FillLoop(a0, s.n - 1, s.n - 1, si, osd)
       IN  Outcome("returned", r, [s EXCEPT !.v = CallocPtr(hp)],
                   Append(hp, [live |-> TRUE, a |-> a1]))

\* The interval check for a negative spacing only.
InvalidRange_NegativeOnly(s) == s.f >= s.i /\ s.d < 0

\* The interval check left out.
InvalidRange_None(s) == FALSE

\* Non-zero interval check of makesample.
InvalidRange(s) ==
  \/ s.f <= s.i /\ s.d > 0
  \/ s.f >= s.i /\ s.d < 0

\* The spacing path with the oversampling check ahead of the interval check.
SpacingPath_OversampleFirst(s, hint, ref, hp, r) ==
  IF hint.o <= 0 /\ ref.o <= 0 THEN Outcome("returned", -6, s, hp)
  ELSE IF (s.f <= s.i /\ s.d > 0) \/ (s.f >= s.i /\ s.d < 0)
  THEN Outcome("returned", -3, s, hp)
  ELSE LET o  == IF hint.o <= 0 THEN ref.o ELSE hint.o
           s2 == [s EXCEPT !.o = o,
                           !.n = OversampledN(NPoints(s.i, s.f, s.d), o)]
       IN  FillValues(s2, hp, s2.i, OversampledDelta(s2.d, o), r)

\* makesample from "Check non-zero interval" to the return: s holds the
\* accepted fct, i, f and d; r the modification flags.
SpacingPath(s, hint, ref, hp, r) ==
  IF InvalidRange(s) THEN Outcome("returned", -3, s, hp)
  ELSE LET s1 == [s EXCEPT !.n = NPoints(s.i, s.f, s.d)]
       IN  IF hint.o <= 0 /\ ref.o <= 0 THEN Outcome("returned", -6, s1, hp)
           ELSE LET o  == IF hint.o <= 0 THEN ref.o ELSE hint.o
                    s2 == [s1 EXCEPT !.o = o, !.n = OversampledN(s1.n, o)]
                IN  FillValues(s2, hp, s2.i, OversampledDelta(s2.d, o), r)

\* The reference's array shared instead of copied.
FixedArray_Shared(s, ref, hp, r) ==
  Outcome("returned", r, [s EXCEPT !.n = ref.n, !.d = 0, !.v = ref.v, !.o = 0],
          hp)

\* makesample: the reference's fixed array is adopted.
\*   samp->n = ref->n; samp->d = 0; samp->v = calloc(...);
\*   memcpy(samp->v, ref->v, ...); samp->o = 0; return res;
FixedArray(s, ref, hp, r) ==
  LET a == [k \in 1..ref.n |-> Arr(hp, ref.v)[k]]
  IN  Outcome("returned", r,
              [s EXCEPT !.n = ref.n, !.d = 0, !.v = CallocPtr(hp), !.o = 0],
              Append(hp, [live |-> TRUE, a |-> a]))

\* int makesample(prop_samp *samp, prop_samp *hint, prop_samp *ref, fl)
makesample(s0, hint, ref, hp, nd) ==
  LET dhint == hint.d # 0
      fct   == IF hint.fct <= 0 THEN ref.fct ELSE hint.fct
      i     == IF hint.i <= 0 THEN ref.i ELSE hint.i
      r1    == IF hint.i <= 0 THEN BitOr(0, 1) ELSE 0
      f     == IF hint.f <= 0 THEN ref.f ELSE hint.f
      r     == IF hint.f <= 0 THEN BitOr(r1, 2) ELSE r1
      s     == [s0 EXCEPT !.fct = fct, !.i = i, !.f = f]
  IN  IF ~dhint
      THEN IF ref.d = 0 /\ ref.n <= 0 THEN Outcome("returned", -5, s, hp)
           ELSE IF ref.d # 0
                THEN SpacingPath([s EXCEPT !.d = ref.d], hint, ref, hp, r)
                ELSE FixedArray(s, ref, hp, r)
      ELSE IF transitASSERT(hint.d <= 0, nd) THEN Outcome("exit", 0, s, hp)
           ELSE SpacingPath([s EXCEPT !.d = hint.d], hint, ref, hp, r)

\* int makesample1(prop_samp *samp, prop_samp *ref, fl)
makesample1(s0, ref, hp) ==
  LET dhint == ref.d # 0
      s     == [s0 EXCEPT !.fct = ref.fct, !.i = ref.i, !.f = ref.f]
  IN  IF s.f < s.i THEN Outcome("returned", -3, s, hp)
      ELSE IF ~dhint THEN Outcome("returned", -5, s, hp)
      ELSE IF ref.d = 0 THEN Outcome("exit", 0, s, hp)
      ELSE LET s1 == [s EXCEPT !.d = ref.d, !.n = NPoints(s.i, s.f, ref.d)]
           IN  IF ref.o <= 0 THEN Outcome("returned", -6, s1, hp)
               ELSE LET s2 == [s1 EXCEPT !.o = ref.o,
                                         !.n = OversampledN(s1.n, ref.o)]
                    IN  FillValues(s2, hp, s2.i,
                                   OversampledDelta(s2.d, s2.o), 0)

---------------------------------------------------------------------------
(* The domain builders *)

\* struct transit, zeroed.  pi is the set of progress bits that are on;
\* layers points at the arrays interpolated onto the radius grid.
NoTransit ==
  [pi |-> {}, rads |-> NoSamp, ips |-> NoSamp, wns |-> NoSamp,
   owns |-> NoSamp, temp |-> NoSamp, odivs |-> {}, layers |-> NULL]

NoHints ==
  [rads |-> NoSamp, ips |-> NoSamp, temp |-> NoSamp, wns |-> NoSamp,
   wavs |-> NoSamp]

\* What a builder leaves: st is "returned" or "exit"; ub tells that it
\* read or wrote outside live memory on the way; segv that it did so
\* through a pointer to no block at all.
Built4(st, ub, segv, r, t, hp) ==
  [st |-> st, ub |-> ub, segv |-> segv, res |-> r, tr |-> t, heap |-> hp]

\* transitcheckcalled(pi, ..., bits): fatal unless every bit is on.
transitcheckcalled(pi, bits) == bits \subseteq pi

\* void freemem_samp(prop_samp *samp)
freemem_samp(s, hp) == IF s.n # 0 THEN Free(hp, s.v) ELSE hp

\* The exact divisors of the oversampling factor.
divisors(o) == {k \in 1..o : o % k = 0}

\* x*y and 1.0/x for x, y in ticks; Recip is for x # 0, 1.0/0 being
\* +infinity.
Mul(x, y) == TruncQ(x * y, Ticks(1))
Recip(x) == TruncQ(Ticks(1) * Ticks(1), x)

\* int makewnsample(struct transit *tr)
makewnsample(t0, h, hp) ==
  LET hsamp  == h.wns
      wlsamp == h.wavs
      fatal  ==
        \/ hsamp.i > 0 /\ hsamp.fct <= 0
        \/ hsamp.i <= 0 /\ wlsamp.f > 0 /\ wlsamp.fct <= 0
        \/ hsamp.i <= 0 /\ wlsamp.f <= 0
        \/ hsamp.f > 0 /\ hsamp.fct < 0
        \/ hsamp.f <= 0 /\ wlsamp.i > 0 /\ wlsamp.fct < 0
        \/ hsamp.f <= 0 /\ wlsamp.i <= 0
        \/ hsamp.d <= 0
      inf == hsamp.f <= 0 /\ Mul(wlsamp.i, wlsamp.fct) = 0
      ri == IF hsamp.i > 0 THEN Mul(hsamp.i, hsamp.fct)
            ELSE Recip(Mul(wlsamp.f, wlsamp.fct))
      rf == IF hsamp.f > 0 THEN Mul(hsamp.f, hsamp.fct)
            ELSE Recip(Mul(wlsamp.i, wlsamp.fct))
      r0 == [n |-> 0, d |-> hsamp.d, i |-> ri, f |-> rf, o |-> hsamp.o,
             v |-> NULL, fct |-> 1]
  IN  IF fatal THEN Built4("exit", FALSE, FALSE, 0, t0, hp)
      ELSE IF inf
      \* (1+okfinalexcess)*inf is converted to long: undefined.
      THEN Built4("returned", TRUE, FALSE, 0, t0, hp)
      ELSE LET o1 == makesample1(t0.owns, r0, hp)
               o2 == makesample1(t0.wns, [r0 EXCEPT !.o = 1], o1.heap)
               t2 == [t0 EXCEPT !.owns = o1.samp, !.wns = o2.samp,
                                !.odivs = divisors(o1.samp.o)]
           IN  IF o1.st = "ub" \/ o2.st = "ub"
               THEN Built4("returned", TRUE, TRUE, o2.res, t2, o2.heap)
               ELSE Built4("returned", FALSE, FALSE, o2.res,
                           IF o2.res >= 0
                           THEN [t2 EXCEPT !.pi = @ \cup {"MAKEWN"}] ELSE t2,
                           o2.heap)

\* The hinted radius spacing that keeps the atmospheric-file sampling: -1.
KeepAtm == Ticks(-1)

\* makeradsample: the radius grid itself, by one of the three paths.
RadGrid(rad, h, rsmp, hp, nd) ==
  IF rsmp.n = 1
  THEN Outcome("returned", 0,
               [rad EXCEPT !.n = 1, !.i = rsmp.i, !.f = rsmp.f,
                           !.fct = rsmp.fct, !.d = 0, !.v = CallocPtr(hp)],
               Append(hp, [live |-> TRUE, a |-> <<Arr(hp, rsmp.v)[1]>>]))
  ELSE IF h.rads.d = KeepAtm
  THEN Outcome("returned", 0,
               [rad EXCEPT !.n = rsmp.n, !.i = rsmp.i, !.f = rsmp.f,
                           !.fct = rsmp.fct, !.d = 0, !.v = CallocPtr(hp)],
               Append(hp, [live |-> TRUE,
                           a |-> [k \in 1..rsmp.n |-> Arr(hp, rsmp.v)[k]]]))
  ELSE makesample(rad, h.rads, rsmp, hp, nd)

\* splinterp(N, xi, yi, nx, xout, yout) stays inside its arrays: tri needs
\* N - 2 >= 1 to write e[n-1], spline3 reads xout[0..nx-1] and finds an
\* interval only for xout[n] >= xi[0].
SplinterpDefined(rsmp, rad, hp) ==
  /\ rsmp.n >= 3
  /\ rad.n >= 1
  /\ Live(hp, rad.v)
  /\ Len(Arr(hp, rad.v)) >= rad.n
  /\ \A k \in 1..rad.n : Arr(hp, rad.v)[k] >= Arr(hp, rsmp.v)[1]

\* int makeradsample(struct transit *tr); tok tells whether the
\* interpolated temperatures lie within the line data's range.
makeradsample(t0, h, at, hp, nd, tok) ==
  IF ~transitcheckcalled(t0.pi, {"GETATM", "READINFO"})
  THEN Built4("exit", FALSE, FALSE, 0, t0, hp)
  ELSE
    LET rerun == "MAKERAD" \in t0.pi
        hp1   == IF rerun THEN freemem_samp(t0.rads, Free(hp, t0.layers))
                 ELSE hp
        t1    == IF rerun THEN [t0 EXCEPT !.pi = @ \ {"MAKERAD"}] ELSE t0
    IN  IF transitASSERT(at.rads.n < 1, nd)
        THEN Built4("exit", FALSE, FALSE, 0, t1, hp1)
        ELSE
          LET g    == RadGrid(t1.rads, h, at.rads, hp1, nd)
              nrad == g.samp.n
              t2   == [t1 EXCEPT !.rads = g.samp, !.layers = CallocPtr(g.heap)]
              hp2  == Calloc(g.heap, nrad)
              ub   == ~SplinterpDefined(at.rads, g.samp, g.heap)
              segv == nrad >= 1 /\ ~Readable(g.heap, g.samp.v)
          IN  IF g.st = "exit" THEN Built4("exit", FALSE, FALSE, 0, t1, hp1)
              ELSE IF ~tok THEN Built4("exit", ub, segv, 0, t2, hp2)
              ELSE Built4("returned", ub, segv, g.res,
                          IF g.res >= 0
                          THEN [t2 EXCEPT !.pi = @ \cup {"MAKERAD"}] ELSE t2,
                          hp2)

\* int makeipsample(struct transit *tr)
makeipsample(t0, h, hp, nd) ==
  IF h.rads.d = KeepAtm
  THEN LET n  == t0.rads.n
           ok == n >= 1 => Live(hp, t0.rads.v) /\ Len(Arr(hp, t0.rads.v)) >= n
           a  == [k \in 1..n |->
                    IF Readable(hp, t0.rads.v) /\ n - k + 1 <= Len(Arr(hp, t0.rads.v))
                    THEN Arr(hp, t0.rads.v)[n - k + 1] ELSE 0]
           ip == [t0.ips EXCEPT !.n = n, !.d = 0, !.i = t0.rads.f,
                                !.f = t0.rads.i, !.v = CallocPtr(hp),
                                !.o = 0, !.fct = t0.rads.fct]
       IN  Built4("returned", ~ok, n >= 1 /\ ~Readable(hp, t0.rads.v), 0,
                  [t0 EXCEPT !.ips = ip, !.pi = @ \cup {"MAKEIP"}],
                  Append(hp, [live |-> TRUE, a |-> a]))
  ELSE LET n  == t0.rads.n
           rd == Readable(hp, t0.rads.v) /\ n >= 1
                 /\ n <= Len(Arr(hp, t0.rads.v))
           us == [n |-> 0, d |-> -h.ips.d, i |-> h.ips.f, f |-> h.ips.i,
                  o |-> h.ips.o, v |-> NULL, fct |-> h.ips.fct]
           rs == [n |-> 0, d |-> -t0.rads.d,
                  i |-> IF rd THEN Arr(hp, t0.rads.v)[n] ELSE 0,
                  f |-> IF rd THEN Arr(hp, t0.rads.v)[1] ELSE 0,
                  o |-> t0.rads.o, v |-> NULL, fct |-> t0.rads.fct]
           ub == ~(rd /\ Live(hp, t0.rads.v))
       IN  IF us.f < us.i THEN Built4("exit", ub, ~rd, 0, t0, hp)
           ELSE IF ~transitcheckcalled(t0.pi, {"MAKERAD"})
           THEN Built4("exit", ub, ~rd, 0, t0, hp)
           ELSE LET g == makesample(t0.ips, us, rs, hp, nd)
                IN  IF g.st = "exit" THEN Built4("exit", ub, ~rd, 0, t0, hp)
                    ELSE Built4("returned", ub, ~rd, g.res,
                                IF g.res >= 0
                                THEN [t0 EXCEPT !.ips = g.samp,
                                                !.pi = @ \cup {"MAKEIP"}]
                                ELSE [t0 EXCEPT !.ips = g.samp],
                                g.heap)

\* int maketempsample(struct transit *tr)
maketempsample(t0, h, hp, nd) ==
  LET us == [n |-> 0, d |-> h.temp.d, i |-> h.temp.i, f |-> h.temp.f,
             o |-> 1, v |-> NULL, fct |-> 1]
      rs == [n |-> 0, d |-> 0, i |-> 0, f |-> 0, o |-> 1, v |-> NULL,
             fct |-> 1]
  IN  IF us.f < us.i THEN Built4("exit", FALSE, FALSE, 0, t0, hp)
      ELSE LET g == makesample(t0.temp, us, rs, hp, nd)
           IN  IF g.st = "exit" THEN Built4("exit", FALSE, FALSE, 0, t0, hp)
               ELSE Built4("returned", FALSE, FALSE, g.res,
                           IF g.res >= 0
                           THEN [t0 EXCEPT !.temp = g.samp,
                                           !.pi = @ \cup {"MAKETEMP"}]
                           ELSE [t0 EXCEPT !.temp = g.samp],
                           g.heap)

---------------------------------------------------------------------------
(* Saving and restoring a Sample *)

\* restsample_arr: a count above this is suspicious.
SUSPICIOUS == 1000000

Min(x, y) == IF x < y THEN x ELSE y

\* A block that ends in a run of zeros: its length, its first n values.
BlockLen(b) == Len(b.a) + b.zeros
Prefix(b, n) ==
  LET k == Min(n, Len(b.a))
  IN  [a |-> SubSeq(b.a, 1, k), zeros |-> Min(n, BlockLen(b)) - k]

\* void savesample_arr(FILE *out, prop_samp *samp)
savesample_arr(f, s, hp) ==
  IF s.n > 0
  THEN LET w == Prefix(hp[s.v], s.n)
       IN  [f EXCEPT !.a = @ \o w.a, !.zeros = w.zeros]
  ELSE f

\* void savesample(FILE *out, prop_samp *samp): the struct, pointer and
\* all, then the values.
savesample(f, s, hp) == savesample_arr([f EXCEPT !.hdr = Append(@, s)], s, hp)

\* What a restore leaves: the value returned, the Sample, the heap and the
\* number of values read from the stream.
Restored(r, s, hp, n) == [res |-> r, samp |-> s, heap |-> hp, rd |-> n]

\* A restore that takes a count above the ceiling for corrupt data.
restsample_arr_Strict(f, s, hp, null0) ==
  IF s.n < 0 \/ s.n > SUSPICIOUS THEN Restored(-2, s, hp, 0)
  ELSE IF s.n = 0 /\ null0 THEN Restored(-3, [s EXCEPT !.v = NULL], hp, 0)
  ELSE LET got == Prefix(f, s.n)
       IN  Restored(IF BlockLen(got) # s.n THEN -1 ELSE 0,
                    [s EXCEPT !.v = CallocPtr(hp)],
                    Append(hp, [live |-> TRUE, a |-> got.a,
                                zeros |-> s.n - Len(got.a)]),
                    BlockLen(got))

\* A restore that allocates the values but reads none of them.
restsample_arr_NoRead(f, s, hp, null0) ==
  IF s.n < 0 THEN Restored(-2, s, hp, 0)
  ELSE IF s.n > SUSPICIOUS THEN Restored(1, s, hp, 0)
  ELSE Restored(0, [s EXCEPT !.v = CallocPtr(hp)],
                Append(hp, [live |-> TRUE, a |-> <<>>, zeros |-> s.n]), 0)

\* int restsample_arr(FILE *in, prop_samp *samp); null0 tells whether
\* calloc(0, ...) returns NULL.
restsample_arr(f, s, hp, null0) ==
  IF s.n < 0 THEN Restored(-2, s, hp, 0)
  ELSE IF s.n > SUSPICIOUS THEN Restored(1, s, hp, 0)
  ELSE IF s.n = 0 /\ null0 THEN Restored(-3, [s EXCEPT !.v = NULL], hp, 0)
  ELSE LET s1  == [s EXCEPT !.v = CallocPtr(hp)]
           got == Prefix(f, s.n)
           blk == [live |-> TRUE, a |-> got.a, zeros |-> s.n - Len(got.a)]
       IN  IF s.n = 0
           THEN Restored(0, s1, Append(hp, [blk EXCEPT !.a = <<>>]), 0)
           ELSE Restored(IF BlockLen(got) # s.n THEN -1 ELSE 0, s1,
                         Append(hp, blk), BlockLen(got))

\* int restsample(FILE *in, prop_samp *samp)
restsample(f, s, hp, null0) ==
  IF Len(f.hdr) = 0 THEN Restored(-1, s, hp, 0)
  ELSE restsample_arr(f, f.hdr[1], hp, null0)

---------------------------------------------------------------------------
(* A Sample saved, the stream possibly damaged, then restored: SpecFile *)

\* The counts of the Samples saved.
FileCounts == (0..MaxCount) \cup {SUSPICIOUS, SUSPICIOUS + 1}

\* The values of a valid Sample of count n: all written out up to
\* MaxCount, one value and zeros beyond.
FileBlocks(n) ==
  IF n <= MaxCount
  THEN {[live |-> TRUE, a |-> a, zeros |-> 0] : a \in [1..n -> {1, 3}]}
  ELSE {[live |-> TRUE, a |-> <<3>>, zeros |-> n - 1]}

FileScalars ==
  {[n |-> 0, d |-> 2, i |-> 3, f |-> 5, o |-> 1, v |-> NULL, fct |-> 1],
   [n |-> 0, d |-> 0, i |-> 1, f |-> 3, o |-> 0, v |-> NULL, fct |-> 2]}

\* A count that damage can leave in the stored struct.
DamagedCounts == {-1, 2 * SUSPICIOUS}

InitFile ==
  /\ pc = "tosave"
  /\ op \in {"savesample", "savesample_arr"}
  /\ nodebug = FALSE
  /\ rsamp = NoSamp
  /\ samp = NoSamp
  /\ rev = NoOutcome
  /\ res = 0
  /\ tr = NoTransit
  /\ th = NoHints
  /\ atms = [rads |-> NoSamp]
  /\ calls = 0
  /\ file = NoFile
  /\ work = NoNum
  /\ \E n \in FileCounts, sc \in FileScalars :
       \E b \in FileBlocks(n) :
         /\ heap = IF n > 0 THEN <<b>> ELSE <<>>
         /\ usamp = [sc EXCEPT !.n = n, !.v = IF n > 0 THEN 1 ELSE NULL]

CallSavesample ==
  /\ pc = "tosave"
  /\ file' = IF op = "savesample" THEN savesample(file, usamp, heap)
             ELSE savesample_arr(file, usamp, heap)
  /\ pc' = "saved"
  /\ UNCHANGED <<op, nodebug, genvars, res, heap, pipevars, numvars>>

\* The stream loses its last value, or its struct once no value is left.
Truncate ==
  /\ pc = "saved"
  /\ file.cut < MaxCut
  /\ BlockLen(file) + Len(file.hdr) > 0
  /\ file' = IF file.zeros > 0
             THEN [file EXCEPT !.zeros = @ - 1, !.cut = @ + 1]
             ELSE IF Len(file.a) > 0
             THEN [file EXCEPT !.a = SubSeq(@, 1, Len(@) - 1), !.cut = @ + 1]
             ELSE [file EXCEPT !.hdr = <<>>, !.cut = @ + 1]
  /\ UNCHANGED <<pc, op, nodebug, genvars, res, heap, pipevars, numvars>>

\* The count in the stored struct is damaged.
Damage ==
  /\ pc = "saved"
  /\ file.cut < MaxCut
  /\ Len(file.hdr) > 0
  /\ \E n \in DamagedCounts \ {file.hdr[1].n} :
       file' = [file EXCEPT !.hdr[1].n = n, !.cut = @ + 1]
  /\ UNCHANGED <<pc, op, nodebug, genvars, res, heap, pipevars, numvars>>

\* restsample on what savesample wrote; restsample_arr, by a caller that
\* holds the scalar fields, on what savesample_arr wrote.
CallRestsample ==
  /\ pc = "saved"
  /\ \E null0 \in BOOLEAN :
       LET out == IF op = "savesample"
                  THEN restsample(file, samp, heap, null0)
                  ELSE restsample_arr(file, [usamp EXCEPT !.v = NULL], heap,
                                      null0)
       IN  /\ res' = out.res
           /\ samp' = out.samp
           /\ heap' = out.heap
           /\ file' = [file EXCEPT !.rd = out.rd]
  /\ pc' = "restored"
  /\ UNCHANGED <<op, nodebug, usamp, rsamp, rev, pipevars, numvars>>

NextFile == CallSavesample \/ Truncate \/ Damage \/ CallRestsample

SpecFile == InitFile /\ [][NextFile]_vars

---------------------------------------------------------------------------
(* Simpson integration *)

\* The numerical routines compute on doubles; the model computes on exact
\* fractions p/q (q > 0, lowest terms), so it leaves rounding out.  A
\* division by zero gives NonFinite, which every operation hands on.
RECURSIVE GCD(_, _)
GCD(a, b) == IF b = 0 THEN a ELSE GCD(b, a % b)

NonFinite == [p |-> 0, q |-> 0]
Frac(p, q) ==
  IF q = 0 THEN NonFinite
  ELSE LET g == GCD(Abs(p), Abs(q))
           t == IF q < 0 THEN -1 ELSE 1
       IN  [p |-> (t * p) \div g, q |-> (t * q) \div g]
Whole(k) == [p |-> k, q |-> 1]
Finite(a) == a.q # 0

QAdd(a, b) ==
  IF Finite(a) /\ Finite(b) THEN Frac(a.p * b.q + b.p * a.q, a.q * b.q)
  ELSE NonFinite
QSub(a, b) ==
  IF Finite(a) /\ Finite(b) THEN Frac(a.p * b.q - b.p * a.q, a.q * b.q)
  ELSE NonFinite
QMul(a, b) ==
  IF Finite(a) /\ Finite(b) THEN Frac(a.p * b.p, a.q * b.q) ELSE NonFinite
QDiv(a, b) ==
  IF Finite(a) /\ Finite(b) THEN Frac(a.p * b.q, a.q * b.p) ELSE NonFinite

\* INDd(a, i), with g[1], g[2], ... standing for what lies behind the
\* last element of a.
INDd(a, i, g) == IF i + 1 <= Len(a) THEN a[i + 1] ELSE g[i + 1 - Len(a)]

\* void makeh(double *x, double *h, int n)
makeh(x, n) == [i \in 1..(n - 1) |-> QSub(x[i + 1], x[i])]

\* void *geth(double *h, double *hsum, double *hratio, double *hfactor,
\* int n), h holding the n - 1 intervals between n samples; ub tells that
\* the loop read h behind its last element.
geth(h, n, g) ==
  LET even == IF n % 2 # 0 THEN 0 ELSE 1
      size == n \div 2
      J(i) == 2 * (i - 1) + even
      hsum == [i \in 1..size |-> QAdd(INDd(h, J(i), g), INDd(h, J(i) + 1, g))]
  IN  [hsum    |-> hsum,
       hratio  |-> [i \in 1..size |->
                      QDiv(INDd(h, J(i) + 1, g), INDd(h, J(i), g))],
       hfactor |-> [i \in 1..size |->
                      QDiv(QMul(hsum[i], hsum[i]),
                           QMul(INDd(h, J(i), g), INDd(h, J(i) + 1, g)))],
       ub      |-> \E i \in 1..size : J(i) + 2 > Len(h)]

\* The indices at which geth's loop reads h and writes hsum, hratio and
\* hfactor, and the indices at which simpson's loop reads these three.
GethReads(n) ==
  LET even == IF n % 2 # 0 THEN 0 ELSE 1
  IN  UNION {{2 * i + even, 2 * i + even + 1} : i \in 0..(n \div 2 - 1)}
GethWrites(n) == 0..(n \div 2 - 1)
SimpsonReads(n) == 0..((n - 1) \div 2 - 1)

\* simpson: the sum over the interval pairs i, i+1, ..., (n-1)/2 - 1.
RECURSIVE SimpsonSum(_, _, _, _, _, _)
SimpsonSum(y, hsum, hratio, hfactor, n, i) ==
  IF i >= (n - 1) \div 2 THEN Whole(0)
  ELSE LET j == 2 * i + (IF n % 2 = 0 THEN 1 ELSE 0)
           t == QAdd(QAdd(QMul(y[j + 1], QSub(Whole(2), hratio[i + 1])),
                          QMul(y[j + 2], hfactor[i + 1])),
                     QMul(y[j + 3],
                          QSub(Whole(2), QDiv(Whole(1), hratio[i + 1]))))
       IN  QAdd(QMul(t, hsum[i + 1]),
                SimpsonSum(y, hsum, hratio, hfactor, n, i + 1))

\* double simpson(double *y, double *hsum, double *hratio, double *hfactor,
\* int n)
simpson(y, hsum, hratio, hfactor, n) ==
  QDiv(SimpsonSum(y, hsum, hratio, hfactor, n, 0), Whole(6))

\* The trapezoid of the first interval: h[0]*(y[0] + y[1])/2.
Trapezoid(y, h) == QDiv(QMul(h[1], QAdd(y[1], y[2])), Whole(2))

\* simps without the trapezoid of the first interval for an even n.
simps_PairsOnly(y, h, hsum, hratio, hfactor, n) ==
  IF n = 1 THEN Whole(0)
  ELSE IF n = 2 THEN Trapezoid(y, h)
  ELSE simpson(y, hsum, hratio, hfactor, n)

\* double simps(double *y, double *h, double *hsum, double *hratio,
\* double *hfactor, int n)
simps(y, h, hsum, hratio, hfactor, n) ==
  IF n = 1 THEN Whole(0)
  ELSE IF n = 2 THEN Trapezoid(y, h)
  ELSE LET integ == simpson(y, hsum, hratio, hfactor, n)
       IN  IF n % 2 = 0 THEN QAdd(integ, Trapezoid(y, h)) ELSE integ

---------------------------------------------------------------------------
(* makeh, geth and simps on n samples: SpecSimps *)

\* The interval widths and the function values, in quarters.
Widths == {1, 2, 3}
YVals == {-1, 2}
\* What a read behind the end of h can find.
Garbage == {Whole(0), Whole(1)}

RECURSIVE Abscissas(_, _)
Abscissas(w, n) ==
  IF n = 1 THEN <<Whole(0)>>
  ELSE LET x == Abscissas(w, n - 1)
       IN  Append(x, QAdd(x[n - 1], Frac(w[n - 1], 4)))

InitSimps ==
  /\ pc = "makeh"
  /\ op = "simps"
  /\ nodebug = FALSE
  /\ usamp = NoSamp
  /\ rsamp = NoSamp
  /\ samp = NoSamp
  /\ rev = NoOutcome
  /\ res = 0
  /\ heap = <<>>
  /\ tr = NoTransit
  /\ th = NoHints
  /\ atms = [rads |-> NoSamp]
  /\ calls = 0
  /\ file = NoFile
  /\ \E n \in 1..MaxSamples :
       \E w \in [1..(n - 1) -> Widths], y \in [1..n -> YVals] :
         work = [n |-> n, x |-> Abscissas(w, n),
                 y |-> [i \in 1..n |-> Frac(y[i], 4)], h |-> <<>>,
                 hsum |-> <<>>, hratio |-> <<>>, hfactor |-> <<>>,
                 integ |-> Whole(0)]

CallMakeh ==
  /\ pc = "makeh"
  /\ work' = [work EXCEPT !.h = makeh(work.x, work.n)]
  /\ pc' = "geth"
  /\ UNCHANGED <<op, nodebug, genvars, res, heap, pipevars, iovars>>

CallGeth ==
  /\ pc = "geth"
  /\ \E g \in [1..2 -> Garbage] :
       LET out == geth(work.h, work.n, g)
       IN  /\ work' = [work EXCEPT !.hsum = out.hsum, !.hratio = out.hratio,
                                   !.hfactor = out.hfactor]
           /\ pc' \in {"simps"} \cup (IF out.ub THEN {"segv"} ELSE {})
  /\ UNCHANGED <<op, nodebug, genvars, res, heap, pipevars, iovars>>

CallSimps ==
  /\ pc = "simps"
  /\ work' = [work EXCEPT !.integ = simps(work.y, work.h, work.hsum,
                                          work.hratio, work.hfactor, work.n)]
  /\ pc' = "done"
  /\ UNCHANGED <<op, nodebug, genvars, res, heap, pipevars, iovars>>

NextSimps == CallMakeh \/ CallGeth \/ CallSimps

SpecSimps == InitSimps /\ [][NextSimps]_vars

---------------------------------------------------------------------------
(* The tridiagonal solver *)

\* a[i] and a[i] = v for a C array held as a sequence; a read outside the
\* array finds g, a write outside it is lost (and is undefined behaviour).
InBounds(a, i) == i \in 0..(Len(a) - 1)
At(a, i, g) == IF InBounds(a, i) THEN a[i + 1] ELSE g
Put(a, i, v) == IF InBounds(a, i) THEN [a EXCEPT ![i + 1] = v] ELSE a

\* tri, first loop: for (i=1; i<=n; i++) from i on.
RECURSIVE TriForward(_, _, _, _, _, _, _)
TriForward(a, d, c, b, n, i, g) ==
  IF i > n THEN [d |-> d, b |-> b]
  ELSE LET xmult == QDiv(At(a, i - 1, g), At(d, i - 1, g))
       IN  TriForward(a,
                      Put(d, i, QSub(At(d, i, g),
                                     QMul(xmult, At(c, i - 1, g)))),
                      c,
                      Put(b, i, QSub(At(b, i, g),
                                     QMul(xmult, At(b, i - 1, g)))),
                      n, i + 1, g)

\* tri, second loop: for (j = n; j >= 1; j--) from j on.
RECURSIVE TriBack(_, _, _, _, _, _)
TriBack(d, c, b, e, j, g) ==
  IF j < 1 THEN e
  ELSE TriBack(d, c, b,
               Put(e, j, QDiv(QSub(At(b, j - 1, g),
                                   QMul(At(c, j - 1, g), At(e, j + 1, g))),
                              At(d, j - 1, g))),
               j - 1, g)

\* The indices at which tri reads or writes a and c, d and b, and e.
TriIndexAC(n) == 0..(n - 1)
TriIndexDB(n) == (IF n >= 1 THEN 0..n ELSE {}) \cup {n - 1}
TriIndexE(n) == {n - 1, 0, n + 1} \cup (1..(n + 1))

\* double *tri(double *a, double *d, double *c, double *b, double *e,
\* long n): e, and d and b as the first loop leaves them; ub tells that an
\* access fell outside an array.
tri(a, d, c, b, e, n, g) ==
  LET fw == TriForward(a, d, c, b, n, 1, g)
      e1 == Put(e, n - 1, QDiv(At(fw.b, n - 1, g), At(fw.d, n - 1, g)))
      e2 == TriBack(fw.d, c, fw.b, e1, n, g)
  IN  [e  |-> Put(Put(e2, 0, Whole(0)), n + 1, Whole(0)),
       d  |-> fw.d,
       b  |-> fw.b,
       ub |-> \/ \E i \in TriIndexAC(n) : ~InBounds(a, i) \/ ~InBounds(c, i)
              \/ \E i \in TriIndexDB(n) : ~InBounds(d, i) \/ ~InBounds(b, i)
              \/ \E i \in TriIndexE(n) : ~InBounds(e, i)]

---------------------------------------------------------------------------
(* Cubic spline interpolation *)

\* a < b, a <= b and a > 0 on doubles; a comparison with a non-finite
\* operand is false.
QLess(a, b) == Finite(a) /\ Finite(b) /\ a.p * b.q < b.p * a.q
QLeq(a, b) == Finite(a) /\ Finite(b) /\ a.p * b.q <= b.p * a.q

SetMax(S) == CHOOSE m \in S : \A k \in S : k <= m

\* The cubic of interval j at distance dx from its left knot, as spline3
\* writes it: yi[j] + dx*cmult + dx*dx*bmult + dx*dx*dx*amult.
Cubic(xi, yi, z, h, j, dx, g) ==
  LET hj    == At(h, j, g)
      amult == QDiv(QSub(At(z, j + 1, g), At(z, j, g)), QMul(Whole(6), hj))
      bmult == QDiv(At(z, j, g), Whole(2))
      cmult == QSub(QDiv(QSub(At(yi, j + 1, g), At(yi, j, g)), hj),
                    QMul(QDiv(hj, Whole(6)),
                         QAdd(At(z, j + 1, g),
                              QMul(Whole(2), At(z, j, g)))))
  IN  QAdd(QAdd(QAdd(At(yi, j, g), QMul(dx, cmult)),
                QMul(QMul(dx, dx), bmult)),
           QMul(QMul(QMul(dx, dx), dx), amult))

\* spline3, the loop for (n=0; n<=nx; n++) from n on; j is the interval
\* found for the point before, -1 while j is still uninitialised (its
\* value is then jg); ub tells that j was used uninitialised.
RECURSIVE Spline3Loop(_, _, _, _, _, _, _, _, _, _, _, _, _)
Spline3Loop(xi, yi, x, z, h, y, nx, N, n, j, jg, ub, g) ==
  IF n > nx THEN [y |-> y, ub |-> ub]
  ELSE LET below == {i \in 0..(N - 2) : QLeq(At(xi, i, g), At(x, n, g))}
           j1    == IF below = {} THEN j ELSE SetMax(below)
           ju    == IF j1 = -1 THEN jg ELSE j1
           dx    == QSub(At(x, n, g), At(xi, ju, g))
       IN  Spline3Loop(xi, yi, x, z, h,
                       Put(y, n, Cubic(xi, yi, z, h, ju, dx, g)),
                       nx, N, n + 1, j1, jg,
                       ub \/ j1 = -1 \/ ~InBounds(x, n) \/ ~InBounds(y, n), g)

\* double *spline3(double *xi, double *yi, double *x, double *z, double *h,
\* double *y, long nx, long N)
spline3(xi, yi, x, z, h, y, nx, N, jg, g) ==
  Spline3Loop(xi, yi, x, z, h, Put(y, 0, At(yi, 0, g)), nx, N, 0, -1, jg,
              ~InBounds(y, 0), g)

\* The arrays h, k, a and d that splinterp and spline_init fill, each of
\* len elements from calloc; H reads h as the filling loop finds it.
SplineH(x, N, len) ==
  [i \in 1..len |-> IF i <= N - 1 THEN QSub(x[i + 1], x[i]) ELSE Whole(0)]
SplineK(y, h, last, len, g) ==
  [i \in 1..len |->
     IF i - 1 <= last
     THEN QMul(Whole(6),
               QSub(QDiv(QSub(At(y, i + 1, g), At(y, i, g)), At(h, i, g)),
                    QDiv(QSub(At(y, i, g), At(y, i - 1, g)),
                         At(h, i - 1, g))))
     ELSE Whole(0)]
SplineA(h, N, len) ==
  [i \in 1..len |-> IF i <= N - 2 THEN h[i + 1] ELSE Whole(0)]
SplineD(h, N, len) ==
  [i \in 1..len |->
     IF i <= N - 2 THEN QMul(Whole(2), QAdd(h[i], h[i + 1])) ELSE Whole(0)]

QZeros(n) == [i \in 1..n |-> Whole(0)]

\* double *splinterp(long N, double *xi, double *yi, long nx, double *xout,
\* double *yout): the values y; ub tells that an access fell outside an
\* array or read an uninitialised variable.
splinterp(N, xi, yi, nx, xout, jg, g) ==
  LET h  == SplineH(xi, N, N)
      k  == SplineK(yi, h, N - 3, N, g)
      a  == SplineA(h, N, N)
      d  == SplineD(h, N, N)
      t  == tri(a, d, a, k, QZeros(N), N - 2, g)
      s3 == spline3(xi, yi, xout, t.e, h, QZeros(nx), nx - 1, N, jg, g)
  IN  [y  |-> s3.y,
       ub |-> ~InBounds(xi, 1) \/ ~InBounds(yi, 1) \/ t.ub \/ s3.ub]

\* double *spline_init(double *z, double *x, double *y, long N)
spline_init(z, x, y, N, g) ==
  LET h == SplineH(x, N, N - 1)
      k == SplineK(y, h, N - 2, N - 1, g)
      a == SplineA(h, N, N)
      d == SplineD(h, N, N)
      t == tri(a, d, a, k, z, N - 2, g)
  IN  [z  |-> t.e,
       ub |-> \/ ~InBounds(x, 1) \/ ~InBounds(y, 1)
              \/ \E i \in 0..(N - 2) : ~InBounds(y, i + 2) \/ ~InBounds(h, i + 1)
              \/ t.ub]

\* The cubic as splinterp_pt writes it: y_lo + dx*(c + dx*(b + dx*a)).
CubicPt(z, y, index, h, dx, g) ==
  LET a == QDiv(QSub(At(z, index + 1, g), At(z, index, g)),
                QMul(Whole(6), h))
      b == QDiv(At(z, index, g), Whole(2))
      c == QSub(QDiv(QSub(At(y, index + 1, g), At(y, index, g)), h),
                QMul(QDiv(h, Whole(6)),
                     QAdd(At(z, index + 1, g),
                          QMul(Whole(2), At(z, index, g)))))
  IN  QAdd(At(y, index, g), QMul(dx, QAdd(c, QMul(dx, QAdd(b, QMul(dx, a))))))

\* splinterp_pt, the loop while(first<=last): the index it leaves, -1 if
\* it ends without setting one; ub tells that it read x outside the array.
RECURSIVE PtSearch(_, _, _, _, _, _, _)
PtSearch(x, xout, first, last, ub, midindex, g) ==
  IF first > last THEN [index |-> -1, ub |-> ub]
  ELSE LET lo  == QLess(At(x, midindex, g), xout)
           hi  == QLess(xout, At(x, midindex, g))
           ub1 == ub \/ ~InBounds(x, midindex)
                     \/ (lo /\ ~InBounds(x, midindex + 1))
       IN  IF lo /\ QLess(xout, At(x, midindex + 1, g))
           THEN [index |-> midindex, ub |-> ub1]
           ELSE IF lo
           THEN PtSearch(x, xout, midindex + 1, last, ub1,
                         (midindex + 1 + last) \div 2, g)
           ELSE IF hi
           THEN PtSearch(x, xout, first, midindex - 1, ub1,
                         TruncQ(first + midindex - 1, 2), g)
           ELSE [index |-> midindex, ub |-> ub1]

\* double splinterp_pt(double *z, long N, double *x, double *y, double xout,
\* double yout); ig is what an uninitialised index holds.
splinterp_pt(z, N, x, y, xout, ig, g) ==
  LET sr    == PtSearch(x, xout, 0, N, FALSE, N \div 2, g)
      index == IF sr.index = -1 THEN ig ELSE sr.index
      x_lo  == At(x, index, g)
      x_hi  == At(x, index + 1, g)
      h     == QSub(x_hi, x_lo)
      exact == x_lo = xout
      cubic == ~exact /\ QLess(Whole(0), h)
  IN  [yout |-> IF exact THEN At(y, index, g)
                ELSE IF cubic
                THEN CubicPt(z, y, index, h, QSub(xout, x_lo), g)
                ELSE Whole(0),
       ub   |-> \/ sr.ub
                \/ sr.index = -1
                \/ ~InBounds(x, index) \/ ~InBounds(x, index + 1)
                \/ ~InBounds(y, index) \/ ~InBounds(y, index + 1)
                \/ (cubic /\ (~InBounds(z, index) \/ ~InBounds(z, index + 1)))]

---------------------------------------------------------------------------
(* tri on its own, and a table interpolated in bulk or point by point:
   SpecSpline *)

\* The systems handed to tri: n rows with a dominant diagonal, in arrays
\* of n elements or of one element more, and an output buffer of n + 2
\* elements that holds zeros or not.
TriSystems ==
  {[n |-> n, a |-> [i \in 1..(n + r) |-> Whole(IF i <= n THEN a[i] ELSE 0)],
    d |-> [i \in 1..(n + r) |-> Whole(IF i <= n THEN d[i] ELSE 0)],
    c |-> [i \in 1..(n + r) |-> Whole(IF i <= n THEN c[i] ELSE 0)],
    b |-> [i \in 1..(n + r) |-> Whole(IF i <= n THEN b[i] ELSE 0)],
    e |-> [i \in 1..(n + 2) |-> e], e1 |-> <<>>, d1 |-> <<>>, b1 |-> <<>>,
    ub |-> FALSE] :
     n \in 1..MaxSys, r \in {0, 1}, e \in Garbage,
     a \in [1..MaxSys -> {1, 2}], d \in [1..MaxSys -> {4, 5}],
     c \in [1..MaxSys -> {1, 2}], b \in [1..MaxSys -> {0, 3}]}

\* The tables interpolated: N knots with strictly increasing abscissas,
\* asked for at the knots or half a quarter past them; z is the buffer the
\* caller hands to spline_init.
KnotYs == {0, 1, 3}
Tables ==
  UNION {{[N |-> N, xi |-> Abscissas(w, N),
           yi |-> [i \in 1..N |-> Whole(y[i])],
           xout |-> [i \in 1..N |-> QAdd(Abscissas(w, N)[i], Frac(o, 8))],
           z |-> [i \in 1..N |-> z], q |-> 0, yout |-> <<>>, ub |-> FALSE] :
            w \in [1..(N - 1) -> {1, 2}], y \in [1..N -> KnotYs],
            o \in {0, 1}, z \in Garbage} : N \in 1..MaxKnots}

InitSpline ==
  /\ pc = "call"
  /\ op \in {"tri", "splinterp", "splinterp_pt"}
  /\ nodebug = FALSE
  /\ usamp = NoSamp
  /\ rsamp = NoSamp
  /\ samp = NoSamp
  /\ rev = NoOutcome
  /\ res = 0
  /\ heap = <<>>
  /\ tr = NoTransit
  /\ th = NoHints
  /\ atms = [rads |-> NoSamp]
  /\ calls = 0
  /\ file = NoFile
  /\ work \in IF op = "tri" THEN TriSystems ELSE Tables

\* A routine that went outside its arrays may crash instead of returning.
After(ub, next) == pc' \in {next} \cup (IF ub THEN {"segv"} ELSE {})

CallTri ==
  /\ pc = "call"
  /\ op = "tri"
  /\ \E g \in Garbage :
       LET out == tri(work.a, work.d, work.c, work.b, work.e, work.n, g)
       IN  /\ work' = [work EXCEPT !.e1 = out.e, !.d1 = out.d, !.b1 = out.b,
                                   !.ub = out.ub]
           /\ After(out.ub, "done")
  /\ UNCHANGED <<op, nodebug, genvars, res, heap, pipevars, iovars>>

CallSplinterp ==
  /\ pc = "call"
  /\ op = "splinterp"
  /\ \E g \in Garbage, jg \in 0..1 :
       LET out == splinterp(work.N, work.xi, work.yi, work.N, work.xout, jg, g)
       IN  /\ work' = [work EXCEPT !.yout = out.y, !.ub = out.ub]
           /\ After(out.ub, "done")
  /\ UNCHANGED <<op, nodebug, genvars, res, heap, pipevars, iovars>>

CallSplineInit ==
  /\ pc = "call"
  /\ op = "splinterp_pt"
  /\ \E g \in Garbage :
       LET out == spline_init(work.z, work.xi, work.yi, work.N, g)
       IN  /\ work' = [work EXCEPT !.z = out.z, !.ub = out.ub]
           /\ After(out.ub, "init")
  /\ UNCHANGED <<op, nodebug, genvars, res, heap, pipevars, iovars>>

\* One point asked for after another.
CallSplinterpPt ==
  /\ pc = "init"
  /\ work.q < work.N
  /\ \E g \in Garbage, ig \in 0..1 :
       LET out == splinterp_pt(work.z, work.N, work.xi, work.yi,
                               work.xout[work.q + 1], ig, g)
       IN  /\ work' = [work EXCEPT !.q = @ + 1,
                                   !.yout = Append(@, out.yout),
                                   !.ub = @ \/ out.ub]
           /\ After(out.ub, IF work.q + 1 = work.N THEN "done" ELSE "init")
  /\ UNCHANGED <<op, nodebug, genvars, res, heap, pipevars, iovars>>

NextSpline == CallTri \/ CallSplinterp \/ CallSplineInit \/ CallSplinterpPt

SpecSpline == InitSpline /\ [][NextSpline]_vars

---------------------------------------------------------------------------
(* The observable: modulation and freemem_outputray, SpecMod *)

\* The stages modulation checks: tau, makeipsample, makewnsample.
ModulationNeeds == {"TAU", "MAKEIP", "MAKEWN"}

\* pi &= bits and pi &= ~(bits) on the progress indicator.
BitAnd(pi, bits) == pi \cap bits
BitClear(pi, bits) == pi \ bits

\* freemem_idexrefrac, freemem_extinction and freemem_tau, each clearing
\* the bit of its stage as freemem_outputray does.
FreeStages(pi) == BitClear(pi, {"IDXREFRAC", "EXTWN", "TAU"})

\* modulation: tr->pi&=TRPI_MODULATION
MarkModulation(pi) == BitAnd(pi, {"MODULATION"})

\* int freemem_outputray(struct outputray *out, long *pi)
freemem_outputray(out, pi, hp) ==
  [heap |-> Free(hp, out), pi |-> BitClear(pi, {"MODULATION"})]

\* modulation: 100*wn->n/w for w # 0.
Percent(n, w) == (100 * n) \div w

\* What a division by zero leaves in the percentage when it does not trap.
PercentGarbage == {0, -1}

\* The progress indicator on entry: every stage before modulation done, or
\* tau or makeipsample still missing.
Staged ==
  {"GETATM", "READINFO", "MAKERAD", "MAKEWN", "MAKEIP", "IDXREFRAC",
   "EXTWN", "TAU"}
StagedPis == {Staged, Staged \ {"TAU"}, Staged \ {"MAKEIP"}}

InitMod ==
  /\ pc = "main"
  /\ op = "none"
  /\ nodebug = FALSE
  /\ usamp = NoSamp
  /\ rsamp = NoSamp
  /\ samp = NoSamp
  /\ rev = NoOutcome
  /\ res = 0
  /\ th = NoHints
  /\ atms = [rads |-> NoSamp]
  /\ calls = 0
  /\ file = NoFile
  /\ \E n \in 1..MaxWn, p \in StagedPis, d \in {0, -2}, m \in BOOLEAN,
        vl \in {1, 2} :
       /\ heap = <<[live |-> TRUE, a |-> [k \in 1..n |-> 2 * k]]>>
       /\ tr = [NoTransit EXCEPT
                  !.pi = p,
                  !.wns = [n |-> n, d |-> 2, i |-> 2, f |-> 2 * n, o |-> 1,
                           v |-> 1, fct |-> 1],
                  !.ips = [NoSamp EXCEPT !.d = d]]
       /\ work = [monoip |-> m, verblevel |-> vl, out |-> NULL, w |-> 0,
                  nextw |-> 0, reported |-> FALSE, pct |-> 0]

\* modulation up to its loop: the called-before check, the check of the
\* impact parameter's spacing, the output array.
CallModulation ==
  /\ pc = "main"
  /\ op' = "modulation"
  /\ IF ~transitcheckcalled(tr.pi, ModulationNeeds)
     THEN /\ pc' = "exit"
          /\ UNCHANGED <<res, heap, work>>
     ELSE IF tr.ips.d = 0 /\ work.monoip
     THEN /\ pc' = "main"
          /\ res' = -1
          /\ UNCHANGED <<heap, work>>
     ELSE /\ pc' = "loop"
          /\ heap' = Calloc(heap, tr.wns.n)
          /\ work' = [work EXCEPT !.out = CallocPtr(heap), !.w = 0,
                                  !.nextw = tr.wns.n \div 10]
          /\ UNCHANGED res
  /\ UNCHANGED <<nodebug, genvars, pipevars, iovars>>

\* One pass of for(w=0;w<wn->n;w++): obsperwn's value is negative or not;
\* the progress report is printed at verbosity 2.
Integrate ==
  /\ pc = "loop"
  /\ work.w < tr.wns.n
  /\ \E neg \in BOOLEAN :
       IF neg
       THEN /\ pc' = "exit"
            /\ heap' = [heap EXCEPT ![work.out].a[work.w + 1] = -1]
            /\ UNCHANGED work
       ELSE LET report == work.w = work.nextw
                shown  == report /\ 2 <= work.verblevel
                stepped == [work EXCEPT
                              !.w = @ + 1,
                              !.nextw = IF report THEN @ + tr.wns.n \div 10
                                        ELSE @,
                              !.reported = shown]
            IN  /\ heap' = [heap EXCEPT ![work.out].a[work.w + 1] = 1]
                /\ IF shown /\ work.w = 0
                   THEN \/ pc' = "fpe" /\ work' = stepped
                        \/ /\ pc' = "loop"
                           /\ \E q \in PercentGarbage :
                                work' = [stepped EXCEPT !.pct = q]
                   ELSE /\ pc' = "loop"
                        /\ work' = IF shown
                                   THEN [stepped EXCEPT
                                           !.pct = Percent(tr.wns.n, work.w)]
                                   ELSE stepped
  /\ UNCHANGED <<op, nodebug, genvars, res, pipevars, iovars>>

\* modulation after its loop: the stages no longer needed are freed, the
\* progress indicator is set, and printmod prints and ends the program.
FinishModulation ==
  /\ pc = "loop"
  /\ work.w = tr.wns.n
  /\ tr' = [tr EXCEPT !.pi = MarkModulation(FreeStages(@))]
  /\ pc' = "printed"
  /\ UNCHANGED <<op, nodebug, genvars, res, heap, th, atms, calls, iovars,
                 work>>

CallFreememOutputray ==
  /\ pc = "main"
  /\ op' = "freemem_outputray"
  /\ LET out == freemem_outputray(work.out, tr.pi, heap)
     IN  /\ heap' = out.heap
         /\ tr' = [tr EXCEPT !.pi = out.pi]
  /\ res' = 0
  /\ UNCHANGED <<pc, nodebug, genvars, th, atms, calls, iovars, work>>

NextMod ==
  \/ CallModulation
  \/ Integrate
  \/ FinishModulation
  \/ CallFreememOutputray

SpecMod == InitMod /\ [][NextMod]_vars

---------------------------------------------------------------------------
(* The generator called on its own: Spec *)

\* Hinted bounds: 0 (unset) or a positive number of ticks.
HintVals == 0..MaxVal
\* Referenced bounds, of either sign.
RefVals == {-3, -1, 2}
\* Spacings: even ticks, so that spacing/oversample is a whole tick.
StepVals == {2 * k : k \in -MaxStep..MaxStep}
\* Oversampling factors of the hint and of the reference.
HintOvers == {0, 1, 2}
RefOvers == {-1, 2}
\* Units factors of the hint (0: unset) and of the reference.
HintFcts == {0, 2}
RefFcts == {1}

\* The reference's value array of length n.
RefArray(n) == [k \in 1..n |-> 2 * k - 1]

\* The heap before the call: the reference's array, when it has one.
InitHeap(r) ==
  IF r.n > 0 THEN <<[live |-> TRUE, a |-> RefArray(r.n)]>> ELSE <<>>

HintSamples ==
  { [n |-> 0, d |-> d, i |-> i, f |-> f, o |-> o, v |-> NULL, fct |-> c] :
      d \in StepVals, i \in HintVals, f \in HintVals, o \in HintOvers,
      c \in HintFcts }

RefSamples ==
  { [n |-> n, d |-> d, i |-> i, f |-> f, o |-> o,
     v |-> IF n > 0 THEN 1 ELSE NULL, fct |-> c] :
      n \in 0..MaxN, d \in StepVals, i \in RefVals, f \in RefVals,
      o \in RefOvers, c \in RefFcts }

Init ==
  /\ pc = "ready"
  /\ op \in {"makesample", "makesample1"}
  /\ nodebug \in BOOLEAN
  /\ rsamp \in RefSamples
  /\ usamp \in IF op = "makesample" THEN HintSamples ELSE {NoSamp}
  /\ samp = NoSamp
  /\ res = 0
  /\ rev = NoOutcome
  /\ heap = InitHeap(rsamp)
  /\ tr = NoTransit
  /\ th = NoHints
  /\ atms = [rads |-> NoSamp]
  /\ calls = 0
  /\ file = NoFile
  /\ work = NoNum

\* How undefined behaviour can end: a crash, or a loop that does not stop.
UBOutcomes == {"segv", "hang"}

Leave(out) ==
  /\ pc' \in IF out.st = "ub" THEN UBOutcomes ELSE {out.st}
  /\ res' = out.res
  /\ samp' = out.samp
  /\ heap' = out.heap

CallMakesample ==
  /\ pc = "ready"
  /\ op = "makesample"
  /\ Leave(makesample(samp, usamp, rsamp, heap, nodebug))
  /\ UNCHANGED <<op, nodebug, usamp, rsamp, rev, pipevars, iovars, numvars>>

CallMakesample1 ==
  /\ pc = "ready"
  /\ op = "makesample1"
  /\ Leave(makesample1(samp, rsamp, heap))
  /\ UNCHANGED <<op, nodebug, usamp, rsamp, rev, pipevars, iovars, numvars>>

\* A later write by the caller to element k of a live array.
Poke ==
  /\ pc = "returned"
  /\ res >= 0
  /\ \E p \in 1..Len(heap) : \E k \in 1..Len(heap[p].a) :
       heap' = [heap EXCEPT ![p].a[k] = @ + 1]
  /\ pc' = "poked"
  /\ UNCHANGED <<op, nodebug, usamp, rsamp, samp, res, rev, pipevars, iovars, numvars>>

\* The inversion makeipsample applies to a hint and to a reference: the
\* spacing negated, initial and final swapped.
Inverted(s) == [s EXCEPT !.d = -s.d, !.i = s.f, !.f = s.i]

\* After a grid was built on the spacing path, the generator is called
\* again on the inverted hint and reference, into a fresh sample.
CallInverted ==
  /\ pc = "returned"
  /\ op = "makesample"
  /\ res >= 0
  /\ samp.d # 0
  /\ rev' = makesample(NoSamp, Inverted(usamp), Inverted(rsamp), heap, nodebug)
  /\ pc' = "inverted"
  /\ UNCHANGED <<op, nodebug, usamp, rsamp, samp, res, heap, pipevars, iovars, numvars>>

Next == CallMakesample \/ CallMakesample1 \/ Poke \/ CallInverted

Spec == Init /\ [][Next]_vars

---------------------------------------------------------------------------
(* The builders called in any order: SpecPipe *)

\* The atmosphere's radius sampling as the atmosphere reader leaves it:
\* n layers at 0.5, 1.0, 1.5.
AtmLayers == {1, 3}
AtmArray(n) == [k \in 1..n |-> 2 * k]
AtmSamples ==
  {[n |-> n, d |-> d, i |-> 2, f |-> 2 * n, o |-> o, v |-> 1, fct |-> 1] :
     n \in AtmLayers, d \in {0, 2}, o \in {0, 1}}

\* The user's hints.
RadSteps == {KeepAtm, 0, 2}
RadHints ==
  {[n |-> 0, d |-> d, i |-> i, f |-> f, o |-> o, v |-> NULL, fct |-> 0] :
     d \in RadSteps, i \in {0, 2}, f \in {0, 4}, o \in {0, 2}}
IpHints ==
  {[n |-> 0, d |-> d, i |-> i, f |-> 0, o |-> 0, v |-> NULL, fct |-> 0] :
     d \in {-2, 0, 2}, i \in {0, 4}}
TempHints ==
  {[n |-> 0, d |-> d, i |-> 4, f |-> f, o |-> 0, v |-> NULL, fct |-> 0] :
     d \in {-4, 0, 4}, f \in {2, 4, 8}}
WnHints ==
  {[n |-> 0, d |-> d, i |-> i, f |-> f, o |-> o, v |-> NULL, fct |-> fct] :
     d \in {0, 2}, i \in {0, 4}, f \in {0, 2, 8}, o \in {0, 2},
     fct \in {0, Ticks(1)}}
WavHints ==
  {[n |-> 0, d |-> 0, i |-> i, f |-> f, o |-> 0, v |-> NULL, fct |-> fct] :
     i \in {0, 2}, f \in {0, 4}, fct \in {0, Ticks(1)}}

DefaultRadHint == [NoSamp EXCEPT !.d = 2, !.o = 2]
DefaultTempHint == [NoSamp EXCEPT !.d = 4, !.i = 4, !.f = 8]
DefaultWnHint == [NoSamp EXCEPT !.d = 2, !.i = 4, !.f = 8, !.o = 2,
                                !.fct = Ticks(1)]

DefaultAtm == [n |-> 3, d |-> 2, i |-> 2, f |-> 6, o |-> 1, v |-> 1, fct |-> 1]

\* The progress indicator once the atmosphere and the line data are read,
\* or with the line data still missing.
LoadedPi == {"GETATM", "READINFO"}
LoadedPis == {LoadedPi, {"GETATM"}}

\* The inputs vary for one family of builders at a time.
Runs ==
  {[nd |-> nd, pi |-> p, at |-> a,
    th |-> [rads |-> r, ips |-> q, temp |-> DefaultTempHint,
            wns |-> DefaultWnHint, wavs |-> NoSamp]] :
     nd \in BOOLEAN, p \in LoadedPis, a \in AtmSamples, r \in RadHints,
     q \in IpHints}
  \cup
  {[nd |-> nd, pi |-> LoadedPi, at |-> DefaultAtm,
    th |-> [rads |-> DefaultRadHint, ips |-> NoSamp, temp |-> t,
            wns |-> DefaultWnHint, wavs |-> NoSamp]] :
     nd \in BOOLEAN, t \in TempHints}
  \cup
  {[nd |-> FALSE, pi |-> LoadedPi, at |-> DefaultAtm,
    th |-> [rads |-> DefaultRadHint, ips |-> NoSamp, temp |-> DefaultTempHint,
            wns |-> w, wavs |-> l]] :
     w \in WnHints, l \in WavHints}

InitPipe ==
  /\ pc = "main"
  /\ op = "none"
  /\ usamp = NoSamp
  /\ rsamp = NoSamp
  /\ samp = NoSamp
  /\ rev = NoOutcome
  /\ res = 0
  /\ calls = 0
  /\ file = NoFile
  /\ work = NoNum
  /\ \E run \in Runs :
       /\ nodebug = run.nd
       /\ atms = [rads |-> run.at]
       /\ heap = <<[live |-> TRUE, a |-> AtmArray(run.at.n)]>>
       /\ th = run.th
       /\ tr = [NoTransit EXCEPT !.pi = run.pi]

\* The builder name returned out; a builder that went outside live memory
\* may crash instead, and one that went through a pointer to no block does.
Finish(name, out) ==
  /\ pc' \in (IF out.segv THEN {} ELSE {IF out.st = "exit" THEN "exit" ELSE "main"})
            \cup (IF out.ub THEN {"segv"} ELSE {})
  /\ op' = name
  /\ res' = out.res
  /\ tr' = out.tr
  /\ heap' = out.heap
  /\ calls' = calls + 1
  /\ UNCHANGED <<nodebug, genvars, th, atms, iovars, numvars>>

CallMakewnsample ==
  /\ pc = "main"
  /\ calls < MaxCalls
  /\ Finish("makewnsample", makewnsample(tr, th, heap))

CallMakeradsample ==
  /\ pc = "main"
  /\ calls < MaxCalls
  /\ \E tok \in BOOLEAN :
       Finish("makeradsample", makeradsample(tr, th, atms, heap, nodebug, tok))

CallMakeipsample ==
  /\ pc = "main"
  /\ calls < MaxCalls
  /\ Finish("makeipsample", makeipsample(tr, th, heap, nodebug))

CallMaketempsample ==
  /\ pc = "main"
  /\ calls < MaxCalls
  /\ Finish("maketempsample", maketempsample(tr, th, heap, nodebug))

\* Between two runs the caller hints another radius spacing.
ChangeRadHint ==
  /\ pc = "main"
  /\ calls \in 1..(MaxCalls - 1)
  /\ \E d \in RadSteps \ {th.rads.d} : th' = [th EXCEPT !.rads.d = d]
  /\ op' = "hint"
  /\ UNCHANGED <<pc, nodebug, genvars, res, heap, tr, atms, calls, iovars, numvars>>

NextPipe ==
  \/ CallMakewnsample
  \/ CallMakeradsample
  \/ CallMakeipsample
  \/ CallMaketempsample
  \/ ChangeRadHint

SpecPipe == InitPipe /\ [][NextPipe]_vars

---------------------------------------------------------------------------
(* The inputs in effect, as the specification of the generator states them *)

EffI == IF usamp.i > 0 THEN usamp.i ELSE rsamp.i
EffF == IF usamp.f > 0 THEN usamp.f ELSE rsamp.f
EffD == IF usamp.d # 0 THEN usamp.d ELSE rsamp.d
EffO == IF usamp.o > 0 THEN usamp.o ELSE rsamp.o

\* The call has returned to its caller with a grid.
Built(f) == pc = "returned" /\ op = f /\ res >= 0 /\ samp.v # NULL
Values == Arr(heap, samp.v)

\* a/b rounded to the nearest integer, for a >= 0 and b > 0.
RoundQ(a, b) == (2 * a + b) \div (2 * b)

---------------------------------------------------------------------------
(* C1 *)

C1_Case ==
  /\ pc = "returned" /\ op = "makesample"
  /\ EffD > 0 /\ EffF > EffI /\ EffO > 0

\* C1 as claimed: on the spacing path with spacing > 0, final > initial and
\* a positive oversample o, count = round((final - initial)/spacing)*o + 1,
\* values[0] = initial and values[count-1] is within spacing/o of final.
C1_Claimed ==
  C1_Case =>
    /\ Built("makesample")
    /\ samp.n = RoundQ(EffF - EffI, EffD) * EffO + 1
    /\ Len(Values) = samp.n
    /\ Values[1] = EffI
    /\ EffO * Abs(Values[samp.n] - EffF) <= EffD

\* C1 as amended: the count is floor(((1+1e-8)*final - initial)/spacing)*o + 1,
\* values[0] = initial, and values[count-1] = initial + floor(..)*spacing,
\* which is at most (1+1e-8)*final and more than (1+1e-8)*final - spacing.
C1_FloorCount ==
  C1_Case =>
    /\ Built("makesample")
    /\ \E k \in 0..((EffF - EffI) \div EffD) :
         /\ OKFINALEXCESS_INV * k * EffD
              <= (OKFINALEXCESS_INV + 1) * EffF - OKFINALEXCESS_INV * EffI
         /\ (OKFINALEXCESS_INV + 1) * EffF - OKFINALEXCESS_INV * EffI
              < OKFINALEXCESS_INV * (k + 1) * EffD
         /\ samp.n = k * EffO + 1
         /\ Len(Values) = samp.n
         /\ Values[1] = EffI
         /\ Values[samp.n] = EffI + k * EffD

\* A grid whose span is not a whole number of spacings has been built.
C1_Witness ==
  /\ C1_Case /\ Built("makesample")
  /\ (EffF - EffI) % EffD # 0
  /\ EffO = 2 /\ samp.n = 3

---------------------------------------------------------------------------
(* C2 *)

\* C2: after a successful spacing-path call of makesample or makesample1,
\* the array has count >= 1 elements, element k is initial + k*(spacing/
\* oversample) for every k in 0..count-1, and the array is strictly monotonic
\* in the direction of the spacing sign; initial 1.0, final 2.0, spacing 0.5,
\* oversample 2 give the five values 1.0, 1.25, 1.5, 1.75, 2.0.
C2_Values ==
  (pc = "returned" /\ res >= 0 /\ samp.d # 0) =>
    /\ samp.v # NULL
    /\ samp.n >= 1
    /\ Len(Values) = samp.n
    /\ \A k \in 0..(samp.n - 1) :
         samp.o * (Values[k + 1] - samp.i) = k * samp.d
    /\ \A k \in 1..(samp.n - 1) :
         /\ samp.d > 0 => Values[k] < Values[k + 1]
         /\ samp.d < 0 => Values[k] > Values[k + 1]
    /\ (EffI = 4 /\ EffF = 8 /\ EffD = 2 /\ EffO = 2) =>
         Values = <<4, 5, 6, 7, 8>>

\* The concrete scenario has run, through makesample.
C2_Witness ==
  /\ Built("makesample")
  /\ usamp.i = 4 /\ usamp.f = 8 /\ usamp.d = 2 /\ usamp.o = 2
  /\ samp.n = 5

---------------------------------------------------------------------------
(* C3 *)

\* makesample has been called with both bounds hinted and final < initial.
C3_Case ==
  /\ op = "makesample"
  /\ usamp.i > 0 /\ usamp.f > 0 /\ usamp.f < usamp.i

C3_Rejected ==
  /\ pc = "returned" /\ res = -3
  /\ samp.v = NULL /\ heap = InitHeap(rsamp)

---------------------------------------------------------------------------
(* C4 *)

\* C4: a non-negative value returned by makesample is a bitmask in 0..3
\* whose bit 0x1 is set exactly when hint.initial <= 0 and whose bit 0x2 is
\* set exactly when hint.final <= 0; the output's initial, final and units
\* factor are the hint's when positive and the reference's otherwise.
C4_Flags ==
  (pc = "returned" /\ op = "makesample" /\ res >= 0) =>
    /\ res \in 0..3
    /\ (res % 2 = 1) <=> (usamp.i <= 0)
    /\ ((res \div 2) % 2 = 1) <=> (usamp.f <= 0)
    /\ samp.i = IF usamp.i > 0 THEN usamp.i ELSE rsamp.i
    /\ samp.f = IF usamp.f > 0 THEN usamp.f ELSE rsamp.f
    /\ samp.fct = IF usamp.fct > 0 THEN usamp.fct ELSE rsamp.fct

\* A grid has been built with only the final bound taken from the
\* reference, and the units factor from the hint.
C4_Witness ==
  /\ Built("makesample") /\ res = 2
  /\ usamp.i > 0 /\ usamp.f = 0 /\ usamp.fct > 0

---------------------------------------------------------------------------
(* C5 *)

MissingSpacing == usamp.d = 0 /\ ~(rsamp.d # 0 \/ rsamp.n > 0)
RangeNotPast == (EffD > 0 /\ EffF <= EffI) \/ (EffD < 0 /\ EffF >= EffI)
MissingOversample == usamp.o <= 0 /\ rsamp.o <= 0

\* C5 as claimed: makesample returns -5 when the hint spacing is zero and
\* the reference has neither a non-zero spacing nor a positive count;
\* otherwise -3 when final is not strictly past initial in the direction of
\* the spacing sign; otherwise -6 when neither oversample is positive.
C5_Claimed ==
  (pc = "returned" /\ op = "makesample") =>
    /\ MissingSpacing => res = -5
    /\ (~MissingSpacing /\ RangeNotPast) => res = -3
    /\ (~MissingSpacing /\ ~RangeNotPast /\ MissingOversample) => res = -6

\* C5 as amended: the range rule and the oversample rule are applied only
\* when a non-zero spacing is in effect.  Whenever makesample returns, the
\* value is -5 exactly when the spacing rule fails; otherwise, with a
\* non-zero spacing in effect, -3 exactly when the range rule fails and -6
\* exactly when the range rule holds and the oversample rule fails; with no
\* spacing in effect (the reference's array is adopted) the value is
\* non-negative whatever the bounds and oversamples.
C5_RuleOrder ==
  (pc = "returned" /\ op = "makesample") =>
    /\ (res = -5) <=> MissingSpacing
    /\ (res = -3) <=> (~MissingSpacing /\ EffD # 0 /\ RangeNotPast)
    /\ (res = -6) <=>
         (~MissingSpacing /\ EffD # 0 /\ ~RangeNotPast /\ MissingOversample)
    /\ (~MissingSpacing /\ EffD = 0) => res >= 0
    /\ res < 0 => res \in {-5, -3, -6}

\* An input that breaks both the range rule and the oversample rule has
\* been answered with -3.
C5_Witness ==
  /\ pc = "returned" /\ op = "makesample" /\ res = -3
  /\ EffD # 0 /\ RangeNotPast /\ MissingOversample

---------------------------------------------------------------------------
(* C6 *)

C6_Case ==
  /\ op = "makesample"
  /\ usamp.d = 0 /\ rsamp.d = 0 /\ rsamp.n > 0

\* C6: with hint spacing 0, reference spacing 0 and reference count > 0,
\* makesample returns the substitution flags (non-negative) and leaves an
\* output with the reference's count, spacing 0, oversample 0 and a copy of
\* the reference's values in storage of its own: after a later write to
\* either array the other still holds the values copied.
C6_FixedCopy ==
  /\ (C6_Case /\ pc \notin {"ready", "poked"}) =>
       /\ pc = "returned"
       /\ res \in 0..3
       /\ samp.n = rsamp.n /\ samp.d = 0 /\ samp.o = 0
       /\ samp.v # NULL /\ samp.v # rsamp.v
       /\ Len(Values) = samp.n
       /\ \A k \in 1..samp.n : Values[k] = Arr(heap, rsamp.v)[k]
       /\ Arr(heap, rsamp.v) = RefArray(rsamp.n)
  /\ (C6_Case /\ pc = "poked") =>
       \/ Values = RefArray(rsamp.n)
       \/ Arr(heap, rsamp.v) = RefArray(rsamp.n)

\* The reference's array was copied although both carry an oversample, and
\* one of the two arrays has been written to since.
C6_Witness ==
  /\ C6_Case /\ pc = "poked"
  /\ usamp.o > 0 /\ rsamp.o > 0 /\ rsamp.n = 2
  /\ Values # Arr(heap, rsamp.v)

---------------------------------------------------------------------------
(* C7 *)

C7_Case == pc = "inverted"

\* The grid built from the inverted inputs has the first grid's number of
\* points and its values in reverse order.
C7_Reversed ==
  /\ rev.st = "returned"
  /\ rev.res >= 0
  /\ rev.samp.n = samp.n
  /\ rev.samp.v # NULL
  /\ \A k \in 1..samp.n :
       Arr(rev.heap, rev.samp.v)[k] = Values[samp.n + 1 - k]

\* C7 as claimed: for every grid built from (initial, final, spacing,
\* oversample), building from (final, initial, -spacing, oversample) also
\* succeeds and gives the same number of points, in reverse order.
C7_Claimed == C7_Case => C7_Reversed

\* C7 as amended: this holds when both bounds are non-negative and final -
\* initial is a whole multiple of the spacing; the second call then fails
\* to return only where the negated spacing is a hinted one and the build
\* keeps the assertion that a hinted spacing is positive.
C7_WholeSpan ==
  (C7_Case /\ EffI >= 0 /\ EffF >= 0 /\ (EffF - EffI) % Abs(EffD) = 0) =>
    IF rev.st = "exit"
    THEN ~nodebug /\ usamp.d > 0
    ELSE C7_Reversed

\* A three-point grid with positive bounds was rebuilt backwards.
C7_Witness ==
  /\ C7_Case /\ C7_Reversed
  /\ EffI > 0 /\ EffF > EffI /\ samp.n >= 3
  /\ Values[1] < Values[2]
  /\ Arr(rev.heap, rev.samp.v)[1] = EffF

---------------------------------------------------------------------------
(* C10 *)

\* C10 as claimed: makesample1(ref) ends as makesample does on the same
\* reference and a completely unset hint: the same error code when either
\* fails, the same spacing, oversample, count and values when both succeed,
\* and on success it has returned after writing count >= 1 values.
C10_Claimed ==
  (op = "makesample1" /\ pc \notin {"ready", "poked"}) =>
    LET m == makesample(NoSamp, NoSamp, rsamp, InitHeap(rsamp), nodebug)
    IN  /\ pc = "returned"
        /\ (res < 0 \/ m.res < 0) => res = m.res
        /\ (res >= 0 /\ m.res >= 0) =>
             /\ samp.d = m.samp.d /\ samp.o = m.samp.o /\ samp.n = m.samp.n
             /\ samp.n >= 1
             /\ samp.v # NULL
             /\ Values = Arr(m.heap, m.samp.v)

---------------------------------------------------------------------------
(* Claims about the Samples the builders leave *)

\* The builder name has just returned a non-negative status.
Succeeded(name) == pc = "main" /\ op = name /\ res >= 0

AlongSpacing(s) ==
  /\ s.d > 0 => s.f > s.i
  /\ s.d < 0 => s.f < s.i

C9_Claimed ==
  pc = "main" =>
    \A s \in {tr.rads, tr.ips, tr.wns, tr.owns, tr.temp} :
      s.d = 0 /\ s.n > 0 => s.o = 0

\* The values of the grid s, an empty sequence if s points at no block.
GridOf(s) == IF Readable(heap, s.v) THEN Arr(heap, s.v) ELSE <<>>

\* C16: after makewnsample returns a non-negative status, owns and wns
\* have the same initial, final and spacing, wns has oversample 1, owns
\* has the hinted oversample o, owns.count = (wns.count - 1)*o + 1 and
\* wns.v[k] = owns.v[k*o] for every k.
C16_Claimed ==
  Succeeded("makewnsample") =>
    /\ tr.owns.i = tr.wns.i
    /\ tr.owns.f = tr.wns.f
    /\ tr.owns.d = tr.wns.d
    /\ tr.wns.o = 1
    /\ tr.owns.o = th.wns.o
    /\ tr.owns.n = (tr.wns.n - 1) * th.wns.o + 1
    /\ Len(GridOf(tr.wns)) >= tr.wns.n
    /\ Len(GridOf(tr.owns)) >= tr.owns.n
    /\ \A k \in 0..(tr.wns.n - 1) :
         GridOf(tr.wns)[k + 1] = GridOf(tr.owns)[k * th.wns.o + 1]

\* The step is a call of the builder name that returns to its caller.
Returns(name) ==
  pc = "main" /\ pc' = "main" /\ op' = name /\ calls' = calls + 1

\* C17: makeradsample called with TRPI_MAKERAD set releases the per-layer
\* arrays, the radius grid and the impact-parameter grid built before, so
\* that after the call no impact-parameter grid made from the old radius
\* grid is still allocated or still marked built (TRPI_MAKEIP).
C17_Claimed ==
  [][(Returns("makeradsample") /\ "MAKERAD" \in tr.pi) =>
       /\ ~Live(heap', tr.layers)
       /\ ~Live(heap', tr.rads.v)
       /\ ~Live(heap', tr.ips.v)
       /\ "MAKEIP" \notin tr'.pi]_vars

\* makeradsample has just returned a radius grid that it took over from
\* the atmosphere: its single radius, or all its radii under the hinted
\* spacing -1.
Passthrough ==
  /\ Succeeded("makeradsample")
  /\ "MAKERAD" \in tr.pi
  /\ atms.rads.n = 1 \/ th.rads.d = KeepAtm

\* The step is a call of the builder name, however it ends.
Calls(name) == pc = "main" /\ op' = name /\ calls' = calls + 1

\* The impact-parameter grid after the step is the radius grid reversed.
ReversedCopy ==
  /\ tr'.ips.n = tr.rads.n
  /\ tr'.ips.i = tr.rads.f
  /\ tr'.ips.f = tr.rads.i
  /\ tr'.ips.d = 0
  /\ Readable(heap', tr'.ips.v)
  /\ Len(Arr(heap', tr'.ips.v)) = tr.rads.n
  /\ \A k \in 0..(tr.rads.n - 1) :
       Arr(heap', tr'.ips.v)[k + 1] = Arr(heap, tr.rads.v)[tr.rads.n - k]

\* C18: whenever makeradsample took a passthrough path (one radius in the
\* atmosphere, or the hinted radius spacing -1), a following makeipsample
\* returns a non-negative value and leaves the reverse-ordered copy of the
\* radius grid: the same count, ips.v[k] = rads.v[count-1-k], initial and
\* final swapped, spacing 0.
C18_Claimed ==
  [][(Passthrough /\ Calls("makeipsample")) =>
       /\ pc' = "main"
       /\ res' >= 0
       /\ ReversedCopy]_vars

\* C19: makeipsample reads the radius grid and sets TRPI_MAKEIP only in
\* states where TRPI_MAKERAD is set; called earlier it fails its
\* called-before check, on the passthrough branch and on the resample
\* branch alike, without touching the radius grid: it neither returns nor
\* crashes on a read of the grid, and it leaves the progress indicator and
\* the impact-parameter Sample as they were.
C19_Claimed ==
  [][(Calls("makeipsample") /\ "MAKERAD" \notin tr.pi) =>
       /\ pc' = "exit"
       /\ tr'.pi = tr.pi
       /\ tr'.ips = tr.ips]_vars

\* C20: when modulation has completed its integration loop without error,
\* tr->pi has TRPI_MODULATION set and the bits of the stages modulation
\* did not free, TRPI_MAKEWN and TRPI_MAKEIP, are still set.
C20_Claimed ==
  (pc = "printed" /\ op = "modulation") =>
    /\ "MODULATION" \in tr.pi
    /\ {"MAKEWN", "MAKEIP"} \subseteq tr.pi

---------------------------------------------------------------------------
(* Claims about saving and restoring *)

\* restsample has returned on the undamaged stream that savesample wrote.
RoundTrip == pc = "restored" /\ op = "savesample" /\ file.cut = 0

\* The restored scalar fields are those saved.
SameScalars ==
  /\ samp.n = usamp.n /\ samp.d = usamp.d /\ samp.i = usamp.i
  /\ samp.f = usamp.f /\ samp.o = usamp.o /\ samp.fct = usamp.fct

\* The restored values are those saved.
SameValues ==
  usamp.n > 0 =>
    /\ samp.v \in 1..Len(heap)
    /\ samp.v # usamp.v
    /\ Prefix(heap[samp.v], samp.n) = Prefix(heap[usamp.v], usamp.n)
    /\ BlockLen(heap[samp.v]) = usamp.n

\* C11 as stated: for every count >= 0, restoring what was saved returns 0
\* with identical scalar fields and identical values.
C11_Claimed == RoundTrip => res = 0 /\ SameScalars /\ SameValues

\* C11 as the code has it: the scalar fields always come back identical;
\* for a count in 1..1000000 restsample returns 0 with identical values;
\* for count 0 it returns 0, or -3 where calloc(0) yields NULL; for a count
\* above 1000000 it returns 1, reads no value and leaves in v the pointer
\* that was stored.
C11_UpToCeiling ==
  RoundTrip =>
    /\ SameScalars
    /\ usamp.n \in 1..SUSPICIOUS => res = 0 /\ SameValues
    /\ usamp.n = 0 => res \in {0, -3}
    /\ usamp.n > SUSPICIOUS => res = 1 /\ file.rd = 0 /\ samp.v = usamp.v

\* C11's case: a Sample of two values went through the stream.
C11_Witness ==
  /\ RoundTrip
  /\ usamp.n = 2
  /\ res = 0
  /\ heap[samp.v].a = <<1, 3>>
  /\ heap[usamp.v].a = <<1, 3>>

\* The count restsample_arr works on, and the blocks allocated before it.
StoredCount == IF op = "savesample" THEN file.hdr[1].n ELSE usamp.n
BlocksBefore == IF usamp.n > 0 THEN 1 ELSE 0

\* C12: a restore classifies the stored count before it touches the
\* values: a negative count gives -2 and a count above 1000000 gives 1,
\* both without allocating or reading values; a count in 0..1000000 gives 0
\* only if exactly count values were read, a short read of the struct or of
\* the values gives -1, and count 0 reads nothing.
C12_Classified ==
  pc = "restored" =>
    IF op = "savesample" /\ Len(file.hdr) = 0
    THEN res = -1 /\ file.rd = 0 /\ Len(heap) = BlocksBefore
    ELSE /\ StoredCount < 0 =>
              res = -2 /\ file.rd = 0 /\ Len(heap) = BlocksBefore
         /\ StoredCount > SUSPICIOUS =>
              res = 1 /\ file.rd = 0 /\ Len(heap) = BlocksBefore
         /\ StoredCount \in 0..SUSPICIOUS =>
              /\ res = 0 => file.rd = StoredCount
              /\ BlockLen(file) < StoredCount => res = -1
              /\ StoredCount = 0 => file.rd = 0

\* C12's case: a stored count of 2000000 with values behind it.
C12_Witness ==
  /\ pc = "restored"
  /\ op = "savesample"
  /\ Len(file.hdr) = 1
  /\ file.hdr[1].n = 2 * SUSPICIOUS
  /\ BlockLen(file) > 0
  /\ res = 1

---------------------------------------------------------------------------
(* Claims about the integration *)

\* The function values are all the same.
ConstantY == \A i \in 1..work.n : work.y[i] = work.y[1]

\* C13: for every n >= 1, positive widths h and constant k, simps on
\* y[i] = k returns k*(x[n-1] - x[0]): 0 for n = 1, the trapezoid
\* h[0]*(y[0] + y[1])/2 for n = 2, and for n >= 3 the Simpson pairs plus,
\* for even n, the trapezoid of the first interval.
C13_Constant ==
  (pc = "done" /\ ConstantY) =>
    /\ work.integ = QMul(work.y[1], QSub(work.x[work.n], work.x[1]))
    /\ work.n = 1 => work.integ = Whole(0)
    /\ work.n = 2 => work.integ = Trapezoid(work.y, work.h)

\* C13's case: an even number of samples, at least four, over unequal
\* widths, with a non-zero constant.
C13_Witness ==
  /\ pc = "done"
  /\ ConstantY
  /\ work.n >= 4
  /\ work.n % 2 = 0
  /\ work.h[1] # work.h[2]
  /\ work.h[2] # work.h[3]
  /\ work.integ # Whole(0)

---------------------------------------------------------------------------
(* C14: the spline at its knots *)

\* The table is asked for at its own knots.
AtKnots == op \in {"splinterp", "splinterp_pt"} /\ work.xout = work.xi

\* C14: asked for at a knot, the first and the last included, the spline
\* returns that knot's ordinate, in bulk mode (splinterp) and in point mode
\* (spline_init, then splinterp_pt with N the number of knots), and reads
\* xi, yi and z only at the indices 0..N-1.
C14_Claimed ==
  (pc \in {"done", "segv"} /\ AtKnots) =>
    /\ pc = "done"
    /\ ~work.ub
    /\ work.yout = work.yi

---------------------------------------------------------------------------
(* C15: what tri leaves in e *)

\* Row i of the system of n rows that a, d, c and b hold on entry, taken
\* at the unknowns e[1..n] with zero outside them.
TriRow(e, i) ==
  LET sub == IF i > 0 THEN QMul(work.a[i], e[i + 1]) ELSE Whole(0)
      sup == IF i < work.n - 1 THEN QMul(work.c[i + 1], e[i + 3]) ELSE Whole(0)
  IN  QAdd(QAdd(sub, QMul(work.d[i + 1], e[i + 2])), sup) = work.b[i + 1]

\* C15: for every n >= 1, arrays a, d, c, b of n elements and any buffer e
\* of n + 2 elements, tri returns e with e[0] = 0, e[n+1] = 0 and e[1..n]
\* the solution of the system, having accessed a, d, c and b only at the
\* indices 0..n-1.
C15_Claimed ==
  (pc \in {"done", "segv"} /\ op = "tri" /\ Len(work.d) = work.n) =>
    /\ pc = "done"
    /\ ~work.ub
    /\ work.e1[1] = Whole(0)
    /\ work.e1[work.n + 2] = Whole(0)
    /\ \A i \in 0..(work.n - 1) : TriRow(work.e1, i)

---------------------------------------------------------------------------
(* C21: the status makewnsample returns *)

\* makewnsample has just returned under a hinted oversample that the
\* oversampled grid cannot be built with.
OwnsRefused == pc = "main" /\ op = "makewnsample" /\ th.wns.o <= 0

\* C21: makewnsample sets TRPI_MAKEWN and returns a non-negative value only
\* if both of its grids were built: if the oversampled grid fails (-6 for
\* a hinted oversample <= 0) it returns that negative code, does not set
\* TRPI_MAKEWN and takes no divisors from the unbuilt grid.
C21_Claimed ==
  /\ OwnsRefused =>
       /\ res = -6
       /\ "MAKEWN" \notin tr.pi
       /\ tr.odivs = {}
  /\ (Succeeded("makewnsample") /\ "MAKEWN" \in tr.pi) =>
       /\ Readable(heap, tr.owns.v)
       /\ Readable(heap, tr.wns.v)

---------------------------------------------------------------------------
(* C22: the indices geth uses *)

\* geth has run on the n - 1 intervals of n samples.
GethDone == op = "simps" /\ pc \in {"simps", "segv"}

\* C22: for every n >= 1, geth reads h only at the indices 0..n-2 and
\* writes hsum, hratio and hfactor only at the indices 0..(n-1)/2 - 1,
\* the pairs that simpson consumes for the same n.
C22_Claimed ==
  GethDone =>
    /\ pc = "simps"
    /\ GethReads(work.n) \subseteq 0..(work.n - 2)
    /\ GethWrites(work.n) = SimpsonReads(work.n)
    /\ Len(work.hsum) = (work.n - 1) \div 2
    /\ Len(work.hratio) = (work.n - 1) \div 2
    /\ Len(work.hfactor) = (work.n - 1) \div 2

---------------------------------------------------------------------------
(* C23: the indices spline_init uses *)

\* spline_init has run on a table of at least three knots.
SplineInitDone ==
  /\ op = "splinterp_pt"
  /\ pc \in {"init", "segv"}
  /\ work.q = 0
  /\ work.N >= 3

\* C23: for every N >= 3, spline_init(z, x, y, N) reads x and y only at
\* the indices 0..N-1, stays inside h and k (N-1 elements) and a, d and b
\* (N elements), its call of tri with n = N-2 included, and writes z only
\* at the indices 0..N-1.
C23_Claimed ==
  SplineInitDone =>
    /\ pc = "init"
    /\ ~work.ub
    /\ Len(work.z) = work.N

---------------------------------------------------------------------------
(* C24: the progress report of modulation's loop *)

\* The last pass of the loop, at w = work.w - 1, evaluated 100*wn->n/w.
Reported == op = "modulation" /\ pc \in {"loop", "fpe"} /\ work.reported

\* C24: for every wn->n >= 1 the progress report never divides by zero:
\* whenever w == nextw brings up 100*wn->n/w, w is not zero, also for
\* fewer than 10 wavenumbers where nextw starts at 0, and the percentage
\* reported lies in 0..100.
C24_Claimed ==
  Reported =>
    /\ pc = "loop"
    /\ work.w - 1 # 0
    /\ work.pct \in 0..100

====
